---- MODULE Spec2Model ----
(***************************************************************************)
(* A model of the Adafruit LIS3MDL magnetometer driver                     *)
(* (src/Adafruit_LIS3MDL.h, src/Adafruit_LIS3MDL.cpp).                     *)
(*                                                                         *)
(* The driver object, the register file of the attached device and the     *)
(* bus between them are one state machine.  What a public operation of the *)
(* driver does is computed by an operator of the same name on a record of  *)
(* the whole state, so that an operation can be applied to any state, also *)
(* inside a formula.  A call is one step, unless it waits in delay(): then *)
(* it is one step up to each delay and one from the last delay to its      *)
(* return, and while it waits the device measures and a callback may call  *)
(* the driver on the same handle.                                          *)
(***************************************************************************)
EXTENDS Integers, Sequences, FiniteSets, TLC

VARIABLES
  mem,            \* the device's register file: address -> byte
  softReset,      \* whether the attached device acts on the SOFT_RST bit
  i2c_dev,        \* Adafruit_LIS3MDL::i2c_dev
  spi_dev,        \* Adafruit_LIS3MDL::spi_dev
  rangeBuffered,  \* Adafruit_LIS3MDL::rangeBuffered
  x, y, z,        \* the last raw sample
  x_gauss, y_gauss, z_gauss,   \* the last sample in gauss
  indeterminate,  \* the members among these six whose value is indeterminate
                  \* (never assigned, or assigned from a buffer nothing had
                  \* filled): the program has some value of the member's type
                  \* there, any one, and the model keeps 0 in its place; a
                  \* gauss member outside the set is the quotient of what
                  \* its raw member holds by its den
  begun,          \* history: some begin call has returned true
  calls,          \* the calls that wait in a delay(), the innermost last
  last            \* the call that has just returned (operation, arguments,
                  \* result, bus log), or NoCall once the caller has gone on

vars == <<mem, softReset, i2c_dev, spi_dev, rangeBuffered, x, y, z,
          x_gauss, y_gauss, z_gauss, indeterminate, begun, calls, last>>

-----------------------------------------------------------------------------
(* Register addresses, Adafruit_LIS3MDL.h:21-29 *)

LIS3MDL_REG_WHO_AM_I == 15
LIS3MDL_REG_CTRL_REG1 == 32
LIS3MDL_REG_CTRL_REG2 == 33
LIS3MDL_REG_CTRL_REG3 == 34
LIS3MDL_REG_CTRL_REG4 == 35
LIS3MDL_REG_STATUS == 39
LIS3MDL_REG_OUT_X_L == 40
LIS3MDL_REG_INT_CFG == 48
LIS3MDL_REG_INT_THS_L == 50

(* lis3mdl_range_t *)
LIS3MDL_RANGE_4_GAUSS == 0
LIS3MDL_RANGE_8_GAUSS == 1
LIS3MDL_RANGE_12_GAUSS == 2
LIS3MDL_RANGE_16_GAUSS == 3

(* lis3mdl_dataRate_t, the FAST_ODR bit included *)
LIS3MDL_DATARATE_0_625_HZ == 0
LIS3MDL_DATARATE_1_25_HZ == 2
LIS3MDL_DATARATE_2_5_HZ == 4
LIS3MDL_DATARATE_5_HZ == 6
LIS3MDL_DATARATE_10_HZ == 8
LIS3MDL_DATARATE_20_HZ == 10
LIS3MDL_DATARATE_40_HZ == 12
LIS3MDL_DATARATE_80_HZ == 14
LIS3MDL_DATARATE_155_HZ == 1
LIS3MDL_DATARATE_300_HZ == 3
LIS3MDL_DATARATE_560_HZ == 5
LIS3MDL_DATARATE_1000_HZ == 7

(* lis3mdl_performancemode_t *)
LIS3MDL_LOWPOWERMODE == 0
LIS3MDL_MEDIUMMODE == 1
LIS3MDL_HIGHMODE == 2
LIS3MDL_ULTRAHIGHMODE == 3

(* lis3mdl_operationmode_t *)
LIS3MDL_CONTINUOUSMODE == 0
LIS3MDL_SINGLEMODE == 1
LIS3MDL_POWERDOWNMODE == 3

lis3mdl_range_t ==
  {LIS3MDL_RANGE_4_GAUSS, LIS3MDL_RANGE_8_GAUSS,
   LIS3MDL_RANGE_12_GAUSS, LIS3MDL_RANGE_16_GAUSS}

lis3mdl_dataRate_t ==
  {LIS3MDL_DATARATE_0_625_HZ, LIS3MDL_DATARATE_1_25_HZ,
   LIS3MDL_DATARATE_2_5_HZ, LIS3MDL_DATARATE_5_HZ,
   LIS3MDL_DATARATE_10_HZ, LIS3MDL_DATARATE_20_HZ,
   LIS3MDL_DATARATE_40_HZ, LIS3MDL_DATARATE_80_HZ,
   LIS3MDL_DATARATE_155_HZ, LIS3MDL_DATARATE_300_HZ,
   LIS3MDL_DATARATE_560_HZ, LIS3MDL_DATARATE_1000_HZ}

lis3mdl_performancemode_t ==
  {LIS3MDL_LOWPOWERMODE, LIS3MDL_MEDIUMMODE,
   LIS3MDL_HIGHMODE, LIS3MDL_ULTRAHIGHMODE}

lis3mdl_operationmode_t ==
  {LIS3MDL_CONTINUOUSMODE, LIS3MDL_SINGLEMODE, LIS3MDL_POWERDOWNMODE}

NULL == "NULL"

-----------------------------------------------------------------------------
(* Arithmetic on bit patterns *)

\* the `bits`-wide field of v at bit offset `shift`: (v >> shift) & ((1 << bits) - 1)
Bits(v, bits, shift) == (v \div (2 ^ shift)) % (2 ^ bits)

\* v with that field replaced by data: v &= ~mask; v |= (data & mask0) << shift
WithBits(v, bits, shift, data) ==
  v - Bits(v, bits, shift) * (2 ^ shift) + (data % (2 ^ bits)) * (2 ^ shift)

\* the value of a 16-bit pattern read as int16_t
Int16(w) == IF w % 65536 >= 32768 THEN (w % 65536) - 65536 ELSE w % 65536

\* what Adafruit_BusIO_Register::read() returns when the transfer fails:
\* (uint32_t)-1, all bits set.  TLC's integers are 32-bit signed, so the low 31
\* bits are kept; every use in the driver looks at the low 16 bits at most.
ReadFailed == 2147483647

-----------------------------------------------------------------------------
(* The device: a register file behind a bus                                *)

\* every address the driver touches; a register of `width` bytes spans
\* consecutive addresses (the transfers auto-increment)
Addrs ==
  {LIS3MDL_REG_WHO_AM_I, LIS3MDL_REG_CTRL_REG1, LIS3MDL_REG_CTRL_REG2,
   LIS3MDL_REG_CTRL_REG3, LIS3MDL_REG_CTRL_REG4, LIS3MDL_REG_STATUS,
   LIS3MDL_REG_INT_CFG, LIS3MDL_REG_INT_THS_L, LIS3MDL_REG_INT_THS_L + 1}
  \cup (LIS3MDL_REG_OUT_X_L .. LIS3MDL_REG_OUT_X_L + 5)

\* the registers a software reset puts back, with their power-on content
\* (LIS3MDL datasheet; the range default is also Adafruit_LIS3MDL.h:33)
PowerOn(m) ==
  [a \in Addrs |->
     CASE a = LIS3MDL_REG_CTRL_REG1 -> 16
       [] a = LIS3MDL_REG_CTRL_REG2 -> 0
       [] a = LIS3MDL_REG_CTRL_REG3 -> 3
       [] a = LIS3MDL_REG_CTRL_REG4 -> 0
       [] a = LIS3MDL_REG_INT_CFG -> 232
       [] a = LIS3MDL_REG_INT_THS_L -> 0
       [] a = LIS3MDL_REG_INT_THS_L + 1 -> 0
       [] OTHER -> m[a]]

\* the register file after `bytes` are stored from address addr on.  A device
\* that implements SOFT_RST (bit 2 of control register 2) reverts to its
\* power-on content when the bit is written as 1, and the bit reads 0 again.
DeviceStore(m, resets, addr, bytes) ==
  LET stored == [a \in Addrs |->
                   IF a >= addr /\ a < addr + Len(bytes)
                     THEN bytes[a - addr + 1] ELSE m[a]]
  IN IF /\ resets
        /\ LIS3MDL_REG_CTRL_REG2 >= addr
        /\ LIS3MDL_REG_CTRL_REG2 < addr + Len(bytes)
        /\ Bits(stored[LIS3MDL_REG_CTRL_REG2], 1, 2) = 1
       THEN PowerOn(stored)
       ELSE stored

-----------------------------------------------------------------------------
(* The register layer (Adafruit_BusIO_Register / Adafruit_BusIO_RegisterBits) *)
(* as the driver uses it.  s is the record of the whole state; s.fail is the  *)
(* set of transfers of the current call (counted from 1) that the bus fails.  *)

\* a transport is bound: Adafruit_BusIO_Register uses whichever of the two
\* pointers is not NULL and fails the transfer when both are
Bound(s) == s.i2c_dev # NULL \/ s.spi_dev # NULL

\* whether the next transfer succeeds
NextOk(s) == Bound(s) /\ (s.n + 1) \notin s.fail

\* the bookkeeping of one transfer: counted and logged with its kind, address,
\* length, outcome and the bytes sent (none for a read)
Logged(s, kind, addr, len, bytes) ==
  [s EXCEPT !.n = @ + 1,
            !.log = Append(@, <<kind, addr, len, NextOk(s), bytes>>)]

\* read len bytes from address addr on: [ok, bytes, s]
readRegister(s, addr, len) ==
  [ok |-> NextOk(s),
   bytes |-> [i \in 1..len |-> s.mem[addr + i - 1]],
   s |-> Logged(s, "R", addr, len, <<>>)]

\* write bytes from address addr on: [ok, s]
writeRegister(s, addr, bytes) ==
  [ok |-> NextOk(s),
   s |-> IF NextOk(s)
           THEN [Logged(s, "W", addr, Len(bytes), bytes) EXCEPT
                   !.mem = DeviceStore(s.mem, s.softReset, addr, bytes)]
           ELSE Logged(s, "W", addr, Len(bytes), bytes)]

\* the little-endian value of a byte sequence (LSBFIRST, the register default)
LittleEndian(bytes) ==
  LET RECURSIVE Sum(_)
      Sum(i) == IF i > Len(bytes) THEN 0 ELSE bytes[i] + 256 * Sum(i + 1)
  IN Sum(1)

\* the `width` low bytes of value, low byte first
ToBytes(value, width) == [i \in 1..width |-> (value \div (256 ^ (i - 1))) % 256]

\* Adafruit_BusIO_Register::read(): [val, s], val = (uint32_t)-1 on failure
readValue(s, addr, width) ==
  LET r == readRegister(s, addr, width)
  IN [val |-> IF r.ok THEN LittleEndian(r.bytes) ELSE ReadFailed, s |-> r.s]

\* Adafruit_BusIO_Register::write(value): the state after it
writeValue(s, addr, width, value) == writeRegister(s, addr, ToBytes(value, width)).s

\* Adafruit_BusIO_RegisterBits::read(): [val, s]
readBitField(s, addr, bits, shift) ==
  LET r == readValue(s, addr, 1)
  IN [val |-> Bits(r.val, bits, shift), s |-> r.s]

\* Adafruit_BusIO_RegisterBits::write(data): read, replace the field, write back
writeBitField(s, addr, bits, shift, data) ==
  LET r == readValue(s, addr, 1)
  IN writeValue(r.s, addr, 1, WithBits(r.val, bits, shift, data))

\* delay(ms): logged, so that the order of a call's steps can be stated.  A
\* call that is followed step by step (s.step) waits here: what comes after
\* the delay is left to a later step.
delay(s, ms) ==
  [s EXCEPT !.log = Append(@, <<"D", ms, 0, TRUE, <<>>>>), !.wait = s.step]


-----------------------------------------------------------------------------
(* Values *)

Void == "void"
\* a float that is not a number: the quotient 0 / 0
NaN == [num |-> 0, den |-> 0]

\* a float that is the quotient num / den, kept exact
Ratio(num, den) == [num |-> num, den |-> den]

\* the result of a call
Return(s, v) == [s EXCEPT !.ret = v]

\* a | b on bytes
BitOr(a, b) ==
  LET RECURSIVE Or(_, _, _)
      Or(p, q, k) ==
        IF k = 0 THEN 0
        ELSE (IF p % 2 = 1 \/ q % 2 = 1 THEN 1 ELSE 0)
             + 2 * Or(p \div 2, q \div 2, k - 1)
  IN Or(a, b, 8)

\* a bool used as an integer
Bit(flag) == IF flag THEN 1 ELSE 0

-----------------------------------------------------------------------------
(* The driver's operations (Adafruit_LIS3MDL.cpp), each the state after it  *)
(* with the returned value in s.ret                                         *)

\* getRange returning the range field without storing it
getRange_NoCache(s) ==
  LET r == readBitField(s, LIS3MDL_REG_CTRL_REG2, 2, 5)
  IN Return(r.s, r.val)

\* lis3mdl_range_t getRange(void)
getRange(s) ==
  LET r == readBitField(s, LIS3MDL_REG_CTRL_REG2, 2, 5)
  IN Return([r.s EXCEPT !.rangeBuffered = r.val], r.val)

\* setRange without the update of the cached range
setRange_NoCache(s, range) ==
  Return(writeBitField(s, LIS3MDL_REG_CTRL_REG2, 2, 5, range), Void)

\* void setRange(lis3mdl_range_t range)
setRange(s, range) ==
  Return([writeBitField(s, LIS3MDL_REG_CTRL_REG2, 2, 5, range)
            EXCEPT !.rangeBuffered = range], Void)

\* reset refreshing the cached range before the delay as well
reset_toDelay_EarlyRefresh(s) ==
  delay(getRange(writeBitField(s, LIS3MDL_REG_CTRL_REG2, 1, 2, 1)), 10)

\* void reset(void), up to its wait in delay(10)
reset_toDelay(s) ==
  delay(writeBitField(s, LIS3MDL_REG_CTRL_REG2, 1, 2, 1), 10)

\* reset without the refresh of the cached range
reset_fromDelay_NoRefresh(s) ==
  IF s.wait THEN s ELSE Return(s, Void)

\* void reset(void), from the end of the delay to its return
reset_fromDelay(s) ==
  IF s.wait THEN s ELSE Return(getRange(s), Void)

\* void reset(void)
reset(s) == reset_fromDelay(reset_toDelay(s))

\* setPerformanceMode without the write of the Z field
setPerformanceMode_XYOnly(s, mode) ==
  Return(writeBitField(s, LIS3MDL_REG_CTRL_REG1, 2, 5, mode), Void)

\* void setPerformanceMode(lis3mdl_performancemode_t mode): X/Y, then Z
setPerformanceMode(s, mode) ==
  Return(writeBitField(writeBitField(s, LIS3MDL_REG_CTRL_REG1, 2, 5, mode),
                       LIS3MDL_REG_CTRL_REG4, 2, 2, mode),
         Void)

\* lis3mdl_performancemode_t getPerformanceMode(void)
getPerformanceMode(s) ==
  LET r == readBitField(s, LIS3MDL_REG_CTRL_REG1, 2, 5)
  IN Return(r.s, r.val)

\* setDataRate with the modes of 300 Hz and 560 Hz exchanged
setDataRate_toDelay_Swapped(s, dataRate) ==
  LET s1 == IF dataRate = LIS3MDL_DATARATE_155_HZ
              THEN setPerformanceMode(s, LIS3MDL_ULTRAHIGHMODE) ELSE s
      s2 == IF dataRate = LIS3MDL_DATARATE_300_HZ
              THEN setPerformanceMode(s1, LIS3MDL_MEDIUMMODE) ELSE s1
      s3 == IF dataRate = LIS3MDL_DATARATE_560_HZ
              THEN setPerformanceMode(s2, LIS3MDL_HIGHMODE) ELSE s2
      s4 == IF dataRate = LIS3MDL_DATARATE_1000_HZ
              THEN setPerformanceMode(s3, LIS3MDL_LOWPOWERMODE) ELSE s3
  IN delay(s4, 10)

\* setDataRate writing the rate before the delay as well
setDataRate_toDelay_RateFirst(s, dataRate) ==
  LET s1 == IF dataRate = LIS3MDL_DATARATE_155_HZ
              THEN setPerformanceMode(s, LIS3MDL_ULTRAHIGHMODE) ELSE s
      s2 == IF dataRate = LIS3MDL_DATARATE_300_HZ
              THEN setPerformanceMode(s1, LIS3MDL_HIGHMODE) ELSE s1
      s3 == IF dataRate = LIS3MDL_DATARATE_560_HZ
              THEN setPerformanceMode(s2, LIS3MDL_MEDIUMMODE) ELSE s2
      s4 == IF dataRate = LIS3MDL_DATARATE_1000_HZ
              THEN setPerformanceMode(s3, LIS3MDL_LOWPOWERMODE) ELSE s3
  IN delay(writeBitField(s4, LIS3MDL_REG_CTRL_REG1, 4, 1, dataRate), 10)

\* void setDataRate(lis3mdl_dataRate_t dataRate), up to its wait in delay(10)
setDataRate_toDelay(s, dataRate) ==
  LET s1 == IF dataRate = LIS3MDL_DATARATE_155_HZ
              THEN setPerformanceMode(s, LIS3MDL_ULTRAHIGHMODE) ELSE s
      s2 == IF dataRate = LIS3MDL_DATARATE_300_HZ
              THEN setPerformanceMode(s1, LIS3MDL_HIGHMODE) ELSE s1
      s3 == IF dataRate = LIS3MDL_DATARATE_560_HZ
              THEN setPerformanceMode(s2, LIS3MDL_MEDIUMMODE) ELSE s2
      s4 == IF dataRate = LIS3MDL_DATARATE_1000_HZ
              THEN setPerformanceMode(s3, LIS3MDL_LOWPOWERMODE) ELSE s3
  IN delay(s4, 10)

\* void setDataRate(lis3mdl_dataRate_t dataRate), from the end of the delay
\* to its return
setDataRate_fromDelay(s, dataRate) ==
  IF s.wait
    THEN s
    ELSE Return(writeBitField(s, LIS3MDL_REG_CTRL_REG1, 4, 1, dataRate), Void)

\* void setDataRate(lis3mdl_dataRate_t dataRate)
setDataRate(s, dataRate) ==
  setDataRate_fromDelay(setDataRate_toDelay(s, dataRate), dataRate)

\* lis3mdl_dataRate_t getDataRate(void)
getDataRate(s) ==
  LET r == readBitField(s, LIS3MDL_REG_CTRL_REG1, 4, 1)
  IN Return(r.s, r.val)

\* void setOperationMode(lis3mdl_operationmode_t mode)
setOperationMode(s, mode) ==
  Return(writeBitField(s, LIS3MDL_REG_CTRL_REG3, 2, 0, mode), Void)

\* lis3mdl_operationmode_t getOperationMode(void)
getOperationMode(s) ==
  LET r == readBitField(s, LIS3MDL_REG_CTRL_REG3, 2, 0)
  IN Return(r.s, r.val)

\* setIntThreshold without the mask of the high bit
setIntThreshold_NoMask(s, value) ==
  Return(writeValue(s, LIS3MDL_REG_INT_THS_L, 2, value), Void)

\* void setIntThreshold(uint16_t value)
setIntThreshold(s, value) ==
  Return(writeValue(s, LIS3MDL_REG_INT_THS_L, 2, value % 32768), Void)

\* uint16_t getIntThreshold(void)
getIntThreshold(s) ==
  LET r == readValue(s, LIS3MDL_REG_INT_THS_L, 2)
  IN Return(r.s, r.val % 65536)

\* the byte configInterrupt composes
IntCfgValue(enableX, enableY, enableZ, polarity, latch, enableInt) ==
  LET v0 == 8
      v1 == BitOr(v0, Bit(enableX) * 128)
      v2 == BitOr(v1, Bit(enableY) * 64)
      v3 == BitOr(v2, Bit(enableZ) * 32)
      v4 == BitOr(v3, Bit(polarity) * 4)
      v5 == BitOr(v4, Bit(latch) * 2)
  IN BitOr(v5, Bit(enableInt))

\* configInterrupt as a read-modify-write that ORs the byte into the register
configInterrupt_Merging(s, f) ==
  LET r == readValue(s, LIS3MDL_REG_INT_CFG, 1)
  IN Return(writeValue(r.s, LIS3MDL_REG_INT_CFG, 1,
                       BitOr(r.val % 256,
                             IntCfgValue(f[1], f[2], f[3], f[4], f[5], f[6]))),
            Void)

\* void configInterrupt(bool enableX, ..., bool enableInt); f is the six flags
configInterrupt(s, f) ==
  Return(writeValue(s, LIS3MDL_REG_INT_CFG, 1,
                    IntCfgValue(f[1], f[2], f[3], f[4], f[5], f[6])),
         Void)

\* selfTest with a field two bits wide
selfTest_Wide(s, flag) ==
  Return(writeBitField(s, LIS3MDL_REG_CTRL_REG1, 2, 0, Bit(flag)), Void)

\* void selfTest(bool flag)
selfTest(s, flag) ==
  Return(writeBitField(s, LIS3MDL_REG_CTRL_REG1, 1, 0, Bit(flag)), Void)

\* the scale with the constants of +-8 and +-12 gauss exchanged
Scale_Swapped(range) ==
  CASE range = LIS3MDL_RANGE_16_GAUSS -> 1711
    [] range = LIS3MDL_RANGE_12_GAUSS -> 3421
    [] range = LIS3MDL_RANGE_8_GAUSS -> 2281
    [] range = LIS3MDL_RANGE_4_GAUSS -> 6842
    [] OTHER -> 1

\* the LSB-per-gauss scale read() picks for a cached range
Scale(range) ==
  CASE range = LIS3MDL_RANGE_16_GAUSS -> 1711
    [] range = LIS3MDL_RANGE_12_GAUSS -> 2281
    [] range = LIS3MDL_RANGE_8_GAUSS -> 3421
    [] range = LIS3MDL_RANGE_4_GAUSS -> 6842
    [] OTHER -> 1

\* the buffer decoded into members wider than 16 bits: no sign
Decode_Unsigned(buffer) ==
  [i \in 1..3 |-> buffer[2 * i - 1] + 256 * buffer[2 * i]]

\* the three int16 values of a 6-byte buffer, low byte first
Decode(buffer) ==
  [i \in 1..3 |-> Int16(buffer[2 * i - 1] + 256 * buffer[2 * i])]

\* the members that hold the raw sample
RawMembers == {"x", "y", "z"}

\* the members without an initializer
SampleMembers == RawMembers \cup {"x_gauss", "y_gauss", "z_gauss"}

\* void read(void).  The result of the transfer is not looked at: when it
\* fails, the buffer, which has no initializer, holds six bytes nothing has
\* set, x, y, z are assigned from them and are indeterminate, and the gauss
\* members are their quotients by the scale.
read(s) ==
  LET r == readRegister(s, LIS3MDL_REG_OUT_X_L, 6)
      raw == IF r.ok THEN Decode(r.bytes) ELSE <<0, 0, 0>>
      scale == Scale(s.rangeBuffered)
  IN Return([r.s EXCEPT !.x = raw[1], !.y = raw[2], !.z = raw[3],
                        !.x_gauss = Ratio(raw[1], scale),
                        !.y_gauss = Ratio(raw[2], scale),
                        !.z_gauss = Ratio(raw[3], scale),
                        !.indeterminate = IF r.ok THEN {} ELSE RawMembers],
            Void)

\* bool getEvent(sensors_event_t *event): the magnetic field in microtesla,
\* the gauss members as read() has left them times 100, indeterminate when
\* the raw members are
getEvent(s) ==
  LET t == read(s)
  IN Return(t, [ok |-> TRUE,
                x |-> Ratio(t.x_gauss.num * 100, t.x_gauss.den),
                y |-> Ratio(t.y_gauss.num * 100, t.y_gauss.den),
                z |-> Ratio(t.z_gauss.num * 100, t.z_gauss.den),
                indeterminate |-> t.indeterminate # {}])

\* float magneticFieldSampleRate(void)
magneticFieldSampleRate(s) ==
  LET t == getDataRate(s)
      r == t.ret
  IN Return(t,
       CASE r = LIS3MDL_DATARATE_0_625_HZ -> Ratio(625, 1000)
         [] r = LIS3MDL_DATARATE_1_25_HZ -> Ratio(125, 100)
         [] r = LIS3MDL_DATARATE_2_5_HZ -> Ratio(25, 10)
         [] r = LIS3MDL_DATARATE_5_HZ -> Ratio(5, 1)
         [] r = LIS3MDL_DATARATE_10_HZ -> Ratio(10, 1)
         [] r = LIS3MDL_DATARATE_20_HZ -> Ratio(20, 1)
         [] r = LIS3MDL_DATARATE_40_HZ -> Ratio(40, 1)
         [] r = LIS3MDL_DATARATE_80_HZ -> Ratio(80, 1)
         [] r = LIS3MDL_DATARATE_155_HZ -> Ratio(155, 1)
         [] r = LIS3MDL_DATARATE_300_HZ -> Ratio(300, 1)
         [] r = LIS3MDL_DATARATE_560_HZ -> Ratio(560, 1)
         [] r = LIS3MDL_DATARATE_1000_HZ -> Ratio(1000, 1)
         [] OTHER -> Ratio(0, 1))

\* int magneticFieldAvailable(void)
magneticFieldAvailable(s) ==
  LET r == readValue(s, LIS3MDL_REG_STATUS, 1)
  IN Return(r.s, Bits(r.val, 1, 3))

\* readMagneticField converting with the scale of the cached range, as read()
readMagneticField_Ranged(s) ==
  LET r == readRegister(s, LIS3MDL_REG_OUT_X_L, 6)
      data == Decode(r.bytes)
      scale == Scale(s.rangeBuffered)
  IN IF ~r.ok
       THEN Return(r.s, [status |-> 0, x |-> NaN, y |-> NaN, z |-> NaN])
       ELSE Return(r.s, [status |-> 1,
                         x |-> Ratio(data[1] * 100, scale),
                         y |-> Ratio(data[2] * 100, scale),
                         z |-> Ratio(data[3] * 100, scale)])

\* readMagneticField storing the sample it read in the members as well
readMagneticField_Stores(s) ==
  LET r == readRegister(s, LIS3MDL_REG_OUT_X_L, 6)
      data == Decode(r.bytes)
  IN IF ~r.ok
       THEN Return(r.s, [status |-> 0, x |-> NaN, y |-> NaN, z |-> NaN])
       ELSE Return([r.s EXCEPT !.x = data[1], !.y = data[2], !.z = data[3],
                               !.indeterminate = @ \ RawMembers],
                   [status |-> 1,
                    x |-> Ratio(data[1] * 4 * 100, 32768),
                    y |-> Ratio(data[2] * 4 * 100, 32768),
                    z |-> Ratio(data[3] * 4 * 100, 32768)])

\* readMagneticField going on to convert whatever its read did
readMagneticField_Unchecked(s) ==
  LET r == readRegister(s, LIS3MDL_REG_OUT_X_L, 6)
      data == Decode(r.bytes)
  IN Return(r.s, [status |-> 1,
                  x |-> Ratio(data[1] * 4 * 100, 32768),
                  y |-> Ratio(data[2] * 4 * 100, 32768),
                  z |-> Ratio(data[3] * 4 * 100, 32768)])

\* int readMagneticField(float &x, float &y, float &z): the status and the
\* three outputs, which are the caller's variables, not the members
readMagneticField(s) ==
  LET r == readRegister(s, LIS3MDL_REG_OUT_X_L, 6)
      data == Decode(r.bytes)
  IN IF ~r.ok
       THEN Return(r.s, [status |-> 0, x |-> NaN, y |-> NaN, z |-> NaN])
       ELSE Return(r.s, [status |-> 1,
                         x |-> Ratio(data[1] * 4 * 100, 32768),
                         y |-> Ratio(data[2] * 4 * 100, 32768),
                         z |-> Ratio(data[3] * 4 * 100, 32768)])

\* bool _init(void), from the return of setDataRate to its own
_init_afterRate(s) ==
  IF s.wait
    THEN s
    ELSE Return(setOperationMode(setRange(s, LIS3MDL_RANGE_4_GAUSS),
                                 LIS3MDL_CONTINUOUSMODE),
                TRUE)

\* _init setting the range before the data rate as well
_init_afterReset_RangeFirst(s) ==
  IF s.wait
    THEN s
    ELSE _init_afterRate(
           setDataRate(
             setRange(setPerformanceMode(s, LIS3MDL_ULTRAHIGHMODE),
                      LIS3MDL_RANGE_4_GAUSS),
             LIS3MDL_DATARATE_155_HZ))

\* bool _init(void), from the return of reset on
_init_afterReset(s) ==
  IF s.wait
    THEN s
    ELSE _init_afterRate(
           setDataRate(setPerformanceMode(s, LIS3MDL_ULTRAHIGHMODE),
                       LIS3MDL_DATARATE_155_HZ))

\* _init reading the identity without looking at it
_init_AnyChip(s) ==
  _init_afterReset(reset(readValue(s, LIS3MDL_REG_WHO_AM_I, 1).s))

\* bool _init(void)
_init(s) ==
  LET chip_id == readValue(s, LIS3MDL_REG_WHO_AM_I, 1)
  IN IF chip_id.val # 61
       THEN Return(chip_id.s, FALSE)
       ELSE _init_afterReset(reset(chip_id.s))

\* the transport's begin(): the bus handshake, whose outcome the bus decides
handshake(s, ok) == [s EXCEPT !.log = Append(@, <<"H", 0, 0, ok, <<>>>>)]

\* begin_I2C leaving the SPI slot as it was
begin_I2C_KeepsSPI(s, ok) ==
  LET t == handshake([s EXCEPT !.i2c_dev = "I2C"], ok)
  IN IF ~ok THEN Return(t, FALSE) ELSE _init(t)

\* bool begin_I2C(uint8_t i2c_address, TwoWire *wire)
begin_I2C(s, ok) ==
  LET t == handshake([s EXCEPT !.spi_dev = NULL, !.i2c_dev = "I2C"], ok)
  IN IF ~ok THEN Return(t, FALSE) ELSE _init(t)

\* the hardware-SPI begin clearing the I2C slot only once the handshake is done
begin_SPI_ClearsLate(s, ok) ==
  LET t == handshake([s EXCEPT !.spi_dev = "SPI"], ok)
  IN IF ~ok THEN Return(t, FALSE) ELSE _init([t EXCEPT !.i2c_dev = NULL])

\* boolean begin_SPI(uint8_t cs_pin, SPIClass *theSPI, uint32_t frequency)
begin_SPI(s, ok) ==
  LET t == handshake([s EXCEPT !.i2c_dev = NULL, !.spi_dev = "SPI"], ok)
  IN IF ~ok THEN Return(t, FALSE) ELSE _init(t)

\* the software-SPI begin going on to _init whatever the handshake said
begin_SPI_soft_Unchecked(s, ok) ==
  _init(handshake([s EXCEPT !.i2c_dev = NULL, !.spi_dev = "SPI"], ok))

\* bool begin_SPI(int8_t cs_pin, int8_t sck_pin, int8_t miso_pin,
\*                int8_t mosi_pin, uint32_t frequency)
begin_SPI_soft(s, ok) ==
  LET t == handshake([s EXCEPT !.i2c_dev = NULL, !.spi_dev = "SPI"], ok)
  IN IF ~ok THEN Return(t, FALSE) ELSE _init(t)

-----------------------------------------------------------------------------
(* The state as a record, and a call as an action *)

\* the state at the start of a call whose failing transfers are `fail`, the
\* call running through its delays
State(fail) ==
  [mem |-> mem, softReset |-> softReset, i2c_dev |-> i2c_dev, spi_dev |-> spi_dev,
   rangeBuffered |-> rangeBuffered, x |-> x, y |-> y, z |-> z,
   x_gauss |-> x_gauss, y_gauss |-> y_gauss, z_gauss |-> z_gauss,
   indeterminate |-> indeterminate,
   fail |-> fail, n |-> 0, log |-> <<>>, ret |-> Void,
   step |-> FALSE, wait |-> FALSE]

\* the same, the call followed step by step: it stops at its next delay
Entry(fail) == [State(fail) EXCEPT !.step = TRUE]

Begins == {"begin_I2C", "begin_SPI", "begin_SPI_soft"}

\* alone: no other call was made on the handle while the call waited
NoCall ==
  [op |-> "none", args |-> <<>>, ret |-> Void, log |-> <<>>, alone |-> TRUE]

\* the most calls that wait in a delay at once: a call and one made by a
\* callback during its delay
MaxWaiting == 2

\* when a call is made, told by the number of calls that wait: between two
\* calls only, or also by a callback while a call waits
Outermost == {0}
Anywhere == 0..(MaxWaiting - 1)

\* the program is between two calls, and no call waits
Idle == last = NoCall /\ calls = <<>>

\* the calls that wait, once another call has been made on the handle
Disturbed(waiting) ==
  [i \in 1..Len(waiting) |-> [waiting[i] EXCEPT !.alone = FALSE]]

\* the members and the device as the record t has them
Becomes(t) ==
  /\ mem' = t.mem
  /\ i2c_dev' = t.i2c_dev
  /\ spi_dev' = t.spi_dev
  /\ rangeBuffered' = t.rangeBuffered
  /\ x' = t.x
  /\ y' = t.y
  /\ z' = t.z
  /\ x_gauss' = t.x_gauss
  /\ y_gauss' = t.y_gauss
  /\ z_gauss' = t.z_gauss
  /\ indeterminate' = t.indeterminate
  /\ UNCHANGED softReset

\* the call op(args) has come to t, its return: the caller has the result
Returns(op, args, t, alone) ==
  /\ begun' = (begun \/ (op \in Begins /\ t.ret = TRUE))
  /\ last' = [op |-> op, args |-> args, ret |-> t.ret, log |-> t.log,
              alone |-> alone]

\* the call op(args) has come to t, its at-th delay: what it needs to go on
Waits(op, args, at, t, alone) ==
  [op |-> op, args |-> args, at |-> at, fail |-> t.fail, n |-> t.n,
   log |-> t.log, alone |-> alone]

\* the call op(args) is made, with as many calls waiting as W allows, and
\* comes to t: its first delay or its return
Call(W, op, args, t) ==
  /\ last = NoCall
  /\ Len(calls) \in W
  /\ Becomes(t)
  /\ IF t.wait
       THEN /\ calls' = Append(Disturbed(calls), Waits(op, args, 1, t, TRUE))
            /\ UNCHANGED <<begun, last>>
       ELSE /\ calls' = Disturbed(calls)
            /\ Returns(op, args, t, TRUE)

\* what the call op(args) does from the end of its at-th delay on
Resumed(op, args, at, s) ==
  CASE op = "reset" -> reset_fromDelay(s)
    [] op = "setDataRate" -> setDataRate_fromDelay(s, args[1])
    [] op \in Begins /\ at = 1 -> _init_afterReset(reset_fromDelay(s))
    [] op \in Begins /\ at = 2 ->
         _init_afterRate(setDataRate_fromDelay(s, LIS3MDL_DATARATE_155_HZ))

\* the delay of the innermost waiting call ends: the call goes on to its next
\* delay or to its return
Resume ==
  /\ last = NoCall
  /\ calls # <<>>
  /\ LET c == calls[Len(calls)]
         s == [Entry(c.fail) EXCEPT !.n = c.n, !.log = c.log]
         t == Resumed(c.op, c.args, c.at, s)
         others == SubSeq(calls, 1, Len(calls) - 1)
     IN /\ Becomes(t)
        /\ IF t.wait
             THEN /\ calls' = Append(others,
                                     Waits(c.op, c.args, c.at + 1, t, c.alone))
                  /\ UNCHANGED <<begun, last>>
             ELSE /\ calls' = others
                  /\ Returns(c.op, c.args, t, c.alone)

\* every transfer of the last call succeeded (none, when it made none)
AllOk(log) == \A i \in 1..Len(log) : log[i][4]

\* the transfers of a log: its reads and writes
Transfers(log) == SelectSeq(log, LAMBDA e : e[1] \in {"R", "W"})

-----------------------------------------------------------------------------
(* Inputs *)

\* the bus fails no transfer
NoFault == {{}}

\* a device's register file: identity, control registers 1-4, interrupt
\* configuration and threshold; no sample yet
Device(who, c1, c2, c3, c4, cfg, thsL, thsH) ==
  [a \in Addrs |->
     CASE a = LIS3MDL_REG_WHO_AM_I -> who
       [] a = LIS3MDL_REG_CTRL_REG1 -> c1
       [] a = LIS3MDL_REG_CTRL_REG2 -> c2
       [] a = LIS3MDL_REG_CTRL_REG3 -> c3
       [] a = LIS3MDL_REG_CTRL_REG4 -> c4
       [] a = LIS3MDL_REG_INT_CFG -> cfg
       [] a = LIS3MDL_REG_INT_THS_L -> thsL
       [] a = LIS3MDL_REG_INT_THS_L + 1 -> thsH
       [] OTHER -> 0]

\* what the device may hold when the program starts: all ones, a mixed
\* content whose X/Y and Z performance fields differ, and another chip (a
\* wrong identity) in its power-on content but for the range
PriorDevices ==
  {Device(61, 255, 255, 255, 255, 255, 255, 255),
   Device(61, 165, 64, 1, 8, 21, 52, 18),
   Device(64, 16, 32, 3, 0, 232, 0, 0)}

\* raw samples (x, y, z)
Samples == {<<1000, -2000, 500>>}

\* the six output bytes of a raw sample, low byte first
SampleBytes(smp) ==
  [i \in 1..6 |-> ToBytes(smp[(i + 1) \div 2] % 65536, 2)[2 - (i % 2)]]

-----------------------------------------------------------------------------
(* Initial state: the object as constructed, the device as it happens to be *)

\* the object as the constructor leaves it (both slots NULL, the cached
\* range +-4 gauss, the six members without an initializer holding whatever
\* the storage held, each on its own) with a device of D attached
Constructed(D) ==
  /\ softReset \in BOOLEAN
  /\ \E d \in D :
       \* SOFT_RST reads 0 on a device that implements it
       mem = IF softReset
               THEN [d EXCEPT ![LIS3MDL_REG_CTRL_REG2] = WithBits(@, 1, 2, 0)]
               ELSE d
  /\ i2c_dev = NULL
  /\ spi_dev = NULL
  /\ rangeBuffered = LIS3MDL_RANGE_4_GAUSS
  /\ x = 0 /\ y = 0 /\ z = 0
  /\ x_gauss = Ratio(0, 1) /\ y_gauss = Ratio(0, 1) /\ z_gauss = Ratio(0, 1)
  /\ indeterminate = SampleMembers
  /\ begun = FALSE
  /\ calls = <<>>
  /\ last = NoCall

Init == Constructed(PriorDevices)

\* the same with a device that answers with the identity of a LIS3MDL
Genuine == {d \in PriorDevices : d[LIS3MDL_REG_WHO_AM_I] = 61}

InitGenuine == Constructed(Genuine)

-----------------------------------------------------------------------------
(* Actions: one per public operation, and the device's measurement.  F is    *)
(* the set of failure patterns the bus may follow, the other parameters the  *)
(* sets the arguments are drawn from.                                        *)

\* the register file m once the device has measured the raw sample smp: the
\* output registers hold it and the status register says so
Measured(m, smp) ==
  [a \in Addrs |->
     IF a >= LIS3MDL_REG_OUT_X_L /\ a < LIS3MDL_REG_OUT_X_L + 6
       THEN SampleBytes(smp)[a - LIS3MDL_REG_OUT_X_L + 1]
     ELSE IF a = LIS3MDL_REG_STATUS THEN 15
     ELSE m[a]]

\* the device completes a measurement, between two calls or while a call
\* waits
Measure(S) ==
  /\ last = NoCall
  /\ \E smp \in S : mem' = Measured(mem, smp)
  /\ UNCHANGED <<softReset, i2c_dev, spi_dev, rangeBuffered, x, y, z,
                 x_gauss, y_gauss, z_gauss, indeterminate, begun, calls, last>>

\* the caller has looked at the result of the call and goes on
Continue ==
  /\ last # NoCall
  /\ last' = NoCall
  /\ UNCHANGED <<mem, softReset, i2c_dev, spi_dev, rangeBuffered, x, y, z,
                 x_gauss, y_gauss, z_gauss, indeterminate, begun, calls>>

Begin_I2C(W, F, H) ==
  \E f \in F, ok \in H : Call(W, "begin_I2C", <<>>, begin_I2C(Entry(f), ok))

Begin_SPI(W, F, H) ==
  \E f \in F, ok \in H : Call(W, "begin_SPI", <<>>, begin_SPI(Entry(f), ok))

Begin_SPI_soft(W, F, H) ==
  \E f \in F, ok \in H : Call(W, "begin_SPI_soft", <<>>, begin_SPI_soft(Entry(f), ok))

Reset(W, F) == \E f \in F : Call(W, "reset", <<>>, reset(Entry(f)))

Read(W, F) == \E f \in F : Call(W, "read", <<>>, read(Entry(f)))

GetEvent(W, F) == \E f \in F : Call(W, "getEvent", <<>>, getEvent(Entry(f)))

SetPerformanceMode(W, F, M) ==
  \E f \in F, mode \in M :
    Call(W, "setPerformanceMode", <<mode>>, setPerformanceMode(Entry(f), mode))

GetPerformanceMode(W, F) ==
  \E f \in F : Call(W, "getPerformanceMode", <<>>, getPerformanceMode(Entry(f)))

SetDataRate(W, F, R) ==
  \E f \in F, dataRate \in R :
    Call(W, "setDataRate", <<dataRate>>, setDataRate(Entry(f), dataRate))

GetDataRate(W, F) == \E f \in F : Call(W, "getDataRate", <<>>, getDataRate(Entry(f)))

SetOperationMode(W, F, M) ==
  \E f \in F, mode \in M :
    Call(W, "setOperationMode", <<mode>>, setOperationMode(Entry(f), mode))

GetOperationMode(W, F) ==
  \E f \in F : Call(W, "getOperationMode", <<>>, getOperationMode(Entry(f)))

SetRange(W, F, R) ==
  \E f \in F, range \in R : Call(W, "setRange", <<range>>, setRange(Entry(f), range))

GetRange(W, F) == \E f \in F : Call(W, "getRange", <<>>, getRange(Entry(f)))

SetIntThreshold(W, F, V) ==
  \E f \in F, value \in V :
    Call(W, "setIntThreshold", <<value>>, setIntThreshold(Entry(f), value))

GetIntThreshold(W, F) ==
  \E f \in F : Call(W, "getIntThreshold", <<>>, getIntThreshold(Entry(f)))

ConfigInterrupt(W, F, C) ==
  \E f \in F, flags \in C :
    Call(W, "configInterrupt", flags, configInterrupt(Entry(f), flags))

SelfTest(W, F, B) ==
  \E f \in F, flag \in B : Call(W, "selfTest", <<flag>>, selfTest(Entry(f), flag))

MagneticFieldSampleRate(W, F) ==
  \E f \in F :
    Call(W, "magneticFieldSampleRate", <<>>, magneticFieldSampleRate(Entry(f)))

MagneticFieldAvailable(W, F) ==
  \E f \in F :
    Call(W, "magneticFieldAvailable", <<>>, magneticFieldAvailable(Entry(f)))

ReadMagneticField(W, F) ==
  \E f \in F : Call(W, "readMagneticField", <<>>, readMagneticField(Entry(f)))

-----------------------------------------------------------------------------
(* The driver with a LIS3MDL on a bus that fails no transfer of a bound     *)
(* handle: every operation, one value of each argument, read() also inside  *)
(* the delays of other calls                                                 *)

SomeRates == {LIS3MDL_DATARATE_1000_HZ}

SomeModes == {LIS3MDL_HIGHMODE}

SomeRanges == {LIS3MDL_RANGE_16_GAUSS}

SomeOperationModes == {LIS3MDL_POWERDOWNMODE}

SomeThresholds == {65535}

SomeFlags == {<<TRUE, FALSE, TRUE, FALSE, TRUE, TRUE>>}

Next ==
  \/ Continue
  \/ Resume
  \/ Measure(Samples)
  \/ Begin_I2C(Outermost, NoFault, BOOLEAN)
  \/ Begin_SPI(Outermost, NoFault, BOOLEAN)
  \/ Begin_SPI_soft(Outermost, NoFault, BOOLEAN)
  \/ Reset(Outermost, NoFault)
  \/ Read(Anywhere, NoFault)
  \/ GetEvent(Outermost, NoFault)
  \/ SetPerformanceMode(Outermost, NoFault, SomeModes)
  \/ GetPerformanceMode(Outermost, NoFault)
  \/ SetDataRate(Outermost, NoFault, SomeRates)
  \/ GetDataRate(Outermost, NoFault)
  \/ SetOperationMode(Outermost, NoFault, SomeOperationModes)
  \/ GetOperationMode(Outermost, NoFault)
  \/ SetRange(Outermost, NoFault, SomeRanges)
  \/ GetRange(Outermost, NoFault)
  \/ SetIntThreshold(Outermost, NoFault, SomeThresholds)
  \/ GetIntThreshold(Outermost, NoFault)
  \/ ConfigInterrupt(Outermost, NoFault, SomeFlags)
  \/ SelfTest(Outermost, NoFault, {TRUE})
  \/ MagneticFieldSampleRate(Outermost, NoFault)
  \/ MagneticFieldAvailable(Outermost, NoFault)
  \/ ReadMagneticField(Outermost, NoFault)

Spec == InitGenuine /\ [][Next]_vars

-----------------------------------------------------------------------------
(* The configuration setters on a bus that fails no transfer, with more      *)
(* values of their arguments                                                 *)

ConfigRates ==
  {LIS3MDL_DATARATE_0_625_HZ, LIS3MDL_DATARATE_80_HZ, LIS3MDL_DATARATE_155_HZ,
   LIS3MDL_DATARATE_300_HZ, LIS3MDL_DATARATE_560_HZ, LIS3MDL_DATARATE_1000_HZ}

ConfigModes == {LIS3MDL_LOWPOWERMODE, LIS3MDL_MEDIUMMODE}

ConfigRanges == {LIS3MDL_RANGE_8_GAUSS, LIS3MDL_RANGE_12_GAUSS}

ConfigOperationModes == {LIS3MDL_SINGLEMODE, LIS3MDL_POWERDOWNMODE}

NextConfig ==
  \/ Continue
  \/ Resume
  \/ Begin_I2C(Outermost, NoFault, BOOLEAN)
  \/ Reset(Outermost, NoFault)
  \/ SetPerformanceMode(Outermost, NoFault, ConfigModes)
  \/ GetPerformanceMode(Outermost, NoFault)
  \/ SetDataRate(Outermost, NoFault, ConfigRates)
  \/ GetDataRate(Outermost, NoFault)
  \/ SetOperationMode(Outermost, NoFault, ConfigOperationModes)
  \/ GetOperationMode(Outermost, NoFault)
  \/ SetRange(Outermost, NoFault, ConfigRanges)
  \/ GetRange(Outermost, NoFault)
  \/ SelfTest(Outermost, NoFault, BOOLEAN)

SpecConfig == Init /\ [][NextConfig]_vars

-----------------------------------------------------------------------------
(* Measuring and reading on a bus that fails no transfer, with every range   *)
(* and more samples                                                          *)

\* raw samples the formulas go through: the specification's example, the
\* extremes of int16_t, values around a byte boundary
RawSamples ==
  {<<1000, -2000, 500>>, <<32767, -32768, -1>>, <<1, 255, 256>>, <<-255, -256, -257>>}

NextRead ==
  \/ Continue
  \/ Resume
  \/ Measure(RawSamples)
  \/ Begin_I2C(Outermost, NoFault, BOOLEAN)
  \/ SetRange(Outermost, NoFault, lis3mdl_range_t)
  \/ GetRange(Outermost, NoFault)
  \/ Read(Outermost, NoFault)
  \/ ReadMagneticField(Outermost, NoFault)

SpecRead == Init /\ [][NextRead]_vars

-----------------------------------------------------------------------------
(* The interrupt configuration and threshold on a bus that fails no          *)
(* transfer, with more values of the arguments                               *)

\* the 64 combinations of the six flags
AllFlags == [1..6 -> BOOLEAN]

\* 16-bit values the formulas go through: the powers of two, and values
\* around the high bit and the byte boundary
ThresholdValues ==
  {2 ^ k : k \in 0..15}
    \cup {0, 255, 257, 4660, 32767, 32769, 43981, 65534, 65535}

InterruptFlags ==
  {<<TRUE, FALSE, TRUE, FALSE, TRUE, TRUE>>,
   <<FALSE, TRUE, FALSE, TRUE, FALSE, FALSE>>,
   <<FALSE, FALSE, FALSE, FALSE, FALSE, FALSE>>,
   <<TRUE, TRUE, TRUE, TRUE, TRUE, TRUE>>}

InterruptThresholds == {0, 4660, 32768, 43981, 65535}

NextInterrupt ==
  \/ Continue
  \/ Resume
  \/ Begin_I2C(Outermost, NoFault, BOOLEAN)
  \/ SetIntThreshold(Outermost, NoFault, InterruptThresholds)
  \/ GetIntThreshold(Outermost, NoFault)
  \/ ConfigInterrupt(Outermost, NoFault, InterruptFlags)

SpecInterrupt == Init /\ [][NextInterrupt]_vars

-----------------------------------------------------------------------------
(* The begin calls on a bus that may fail transfers: one transfer of the     *)
(* call, or every transfer from one on                                       *)

\* the most transfers a failure pattern speaks of (a begin call makes 18)
MaxTransfers == 18

FailPatterns ==
  {{}} \cup {{k} : k \in 1..MaxTransfers}
       \cup {k..MaxTransfers : k \in 1..MaxTransfers}

NextFault ==
  \/ Continue
  \/ Resume
  \/ Begin_I2C(Outermost, FailPatterns, BOOLEAN)
  \/ Begin_SPI(Outermost, FailPatterns, BOOLEAN)
  \/ Begin_SPI_soft(Outermost, FailPatterns, BOOLEAN)

SpecFault == Init /\ [][NextFault]_vars

-----------------------------------------------------------------------------
(* Measuring, read and readMagneticField on a bus that may fail the read     *)

NextFieldFault ==
  \/ Continue
  \/ Resume
  \/ Measure(RawSamples)
  \/ Begin_I2C(Outermost, NoFault, BOOLEAN)
  \/ Read(Outermost, FailPatterns)
  \/ ReadMagneticField(Outermost, FailPatterns)

SpecFieldFault == Init /\ [][NextFieldFault]_vars

-----------------------------------------------------------------------------
(* Calls made by a callback while another call waits in its delay, on a bus  *)
(* that fails no transfer: the operations that wait, and those that touch    *)
(* what the waiting calls touch                                              *)

NestedRates == {LIS3MDL_DATARATE_155_HZ, LIS3MDL_DATARATE_1000_HZ}

NextNested ==
  \/ Continue
  \/ Resume
  \/ Begin_I2C(Anywhere, NoFault, BOOLEAN)
  \/ Begin_SPI(Anywhere, NoFault, {TRUE})
  \/ Reset(Anywhere, NoFault)
  \/ SetDataRate(Anywhere, NoFault, NestedRates)
  \/ SetPerformanceMode(Anywhere, NoFault, {LIS3MDL_HIGHMODE})
  \/ SetRange(Anywhere, NoFault, {LIS3MDL_RANGE_16_GAUSS})
  \/ GetRange(Anywhere, NoFault)

SpecNested == Init /\ [][NextNested]_vars

-----------------------------------------------------------------------------
(* What the formulas below look at *)

\* the handle holds a transport
HandleBound == i2c_dev # NULL \/ spi_dev # NULL

\* the device's fields
RangeField == Bits(mem[LIS3MDL_REG_CTRL_REG2], 2, 5)
PerformanceXY == Bits(mem[LIS3MDL_REG_CTRL_REG1], 2, 5)
PerformanceZ == Bits(mem[LIS3MDL_REG_CTRL_REG4], 2, 2)
DataRateField == Bits(mem[LIS3MDL_REG_CTRL_REG1], 4, 1)
OperationModeField == Bits(mem[LIS3MDL_REG_CTRL_REG3], 2, 0)

\* the operation whose call a step belongs to: the call that has just
\* returned, or the call that has just gone to wait in a delay; "none" for
\* a step of the caller or of the device
Acting ==
  IF last' # NoCall THEN last'.op
  ELSE IF calls' # calls THEN calls'[Len(calls')].op
  ELSE "none"

\* the state t, at the start of the next call, on a bus that fails no transfer
NewCall(t) == [t EXCEPT !.fail = {}, !.n = 0, !.log = <<>>, !.ret = Void]

-----------------------------------------------------------------------------
(* What a call made inside the delay of another call leaves behind.  The     *)
(* specification's model is single-threaded and asks for calls on one handle *)
(* to be serialized; the formulas below are about such calls.  These states  *)
(* are reached when they are not.                                            *)

\* setDataRate(155 Hz) has returned with another call made inside its delay
\* and has left 155 Hz with low power in both performance fields
\* (reached under SpecNested, by setDataRate(1000 Hz) inside the delay)
Nested_RateUnpaired ==
  /\ last.op = "setDataRate"
  /\ last.args = <<LIS3MDL_DATARATE_155_HZ>>
  /\ ~last.alone
  /\ mem[LIS3MDL_REG_CTRL_REG1] = 2
  /\ mem[LIS3MDL_REG_CTRL_REG4] = 0

\* a begin call has returned true with another call made inside its delays
\* and has left 155 Hz with low power (reached under SpecNested)
Nested_BeginUnpaired ==
  /\ last.op \in Begins
  /\ last.ret = TRUE
  /\ ~last.alone
  /\ DataRateField = LIS3MDL_DATARATE_155_HZ
  /\ PerformanceXY = LIS3MDL_LOWPOWERMODE
  /\ PerformanceZ = LIS3MDL_LOWPOWERMODE

\* begin_I2C has returned with begin_SPI made inside its delay: the SPI slot
\* is the one that holds a transport (reached under SpecNested)
Nested_BeginOtherBus ==
  /\ last.op = "begin_I2C"
  /\ ~last.alone
  /\ i2c_dev = NULL
  /\ spi_dev # NULL

\* read() has returned inside the delay of a reset, on a ready handle whose
\* device the reset bit has taken back to +-4 gauss: the cache is still +-16
\* gauss and the sample 1000 was divided by 1711 (reached under Spec)
Nested_ReadStaleRange ==
  /\ last.op = "read"
  /\ begun
  /\ calls # <<>>
  /\ calls[1].op = "reset"
  /\ RangeField = LIS3MDL_RANGE_4_GAUSS
  /\ rangeBuffered = LIS3MDL_RANGE_16_GAUSS
  /\ indeterminate = {}
  /\ x = 1000
  /\ x_gauss = [num |-> 1000, den |-> 1711]

-----------------------------------------------------------------------------
(* C1 *)

\* C1: right after a call to setRange, getRange or reset on a bound handle,
\* at any point of any sequence of operations, the cached range equals the
\* range field (bits 6:5 of control register 2) the device holds.
C1_CachedRangeIsDeviceRange ==
  (last.op \in {"setRange", "getRange", "reset"} /\ HandleBound)
    => rangeBuffered = RangeField

\* a reset that found +-16 gauss on a device that reverts to its power-on
\* content when reset, and left +-4 gauss on the device and in the cache
C1_Witness ==
  /\ last.op = "reset"
  /\ HandleBound
  /\ softReset
  /\ Bits(last.log[2][5][1], 2, 5) = LIS3MDL_RANGE_16_GAUSS
  /\ RangeField = LIS3MDL_RANGE_4_GAUSS
  /\ rangeBuffered = LIS3MDL_RANGE_4_GAUSS

-----------------------------------------------------------------------------
(* C2 *)

FastRates ==
  {LIS3MDL_DATARATE_155_HZ, LIS3MDL_DATARATE_300_HZ,
   LIS3MDL_DATARATE_560_HZ, LIS3MDL_DATARATE_1000_HZ}

\* the performance mode the specification pairs with a fast rate
PairedMode(r) ==
  CASE r = LIS3MDL_DATARATE_155_HZ -> LIS3MDL_ULTRAHIGHMODE
    [] r = LIS3MDL_DATARATE_300_HZ -> LIS3MDL_HIGHMODE
    [] r = LIS3MDL_DATARATE_560_HZ -> LIS3MDL_MEDIUMMODE
    [] r = LIS3MDL_DATARATE_1000_HZ -> LIS3MDL_LOWPOWERMODE

\* C2: on a bound handle, for every data rate r and whatever performance mode
\* p getPerformanceMode() reports before: after setDataRate(r),
\* getPerformanceMode() returns the mode paired with r when r is a fast rate
\* and p when r is one of the eight other rates.  The calls are made one
\* after the other, as the specification's single-threaded model has them:
\* the second part is about the setDataRate calls inside whose delay no
\* other call was made on the handle, wherever they were made themselves.
C2_DataRateSetsPairedMode ==
  /\ (Idle /\ HandleBound) =>
       \A r \in lis3mdl_dataRate_t :
         LET p == getPerformanceMode(State({})).ret
             q == getPerformanceMode(NewCall(setDataRate(State({}), r))).ret
         IN q = IF r \in FastRates THEN PairedMode(r) ELSE p
  /\ (last.op = "setDataRate" /\ last.alone /\ HandleBound
        /\ last.args[1] \in FastRates)
       => getPerformanceMode(State({})).ret = PairedMode(last.args[1])

\* setDataRate(1000 Hz) has returned and the device is in low-power mode
C2_Witness ==
  /\ last.op = "setDataRate"
  /\ last.args = <<LIS3MDL_DATARATE_1000_HZ>>
  /\ HandleBound
  /\ PerformanceXY = LIS3MDL_LOWPOWERMODE
  /\ DataRateField = LIS3MDL_DATARATE_1000_HZ

-----------------------------------------------------------------------------
(* C3 *)

\* v with the field (bits, shift) cleared: the bits outside the field
Outside(v, bits, shift) == WithBits(v, bits, shift, 0)

\* the call that led to t left the bits of register reg outside the field as
\* they are in u
KeepsOutside(t, u, reg, bits, shift) ==
  Outside(t.mem[reg], bits, shift) = Outside(u.mem[reg], bits, shift)

\* the frame of every bit-field setter but reset, from the current state: the
\* bits of the register written that lie outside the field are unchanged
SettersKeepOtherBits ==
  LET s == State({})
  IN /\ \A flag \in BOOLEAN :
          KeepsOutside(selfTest(s, flag), s, LIS3MDL_REG_CTRL_REG1, 1, 0)
     /\ \A r \in lis3mdl_dataRate_t :
          \* the rate write, which follows the mode write of a fast rate
          KeepsOutside(setDataRate(s, r),
                       IF r \in FastRates
                         THEN setPerformanceMode(s, PairedMode(r)) ELSE s,
                       LIS3MDL_REG_CTRL_REG1, 4, 1)
     /\ \A mode \in lis3mdl_performancemode_t :
          /\ KeepsOutside(setPerformanceMode(s, mode), s,
                          LIS3MDL_REG_CTRL_REG1, 2, 5)
          /\ KeepsOutside(setPerformanceMode(s, mode), s,
                          LIS3MDL_REG_CTRL_REG4, 2, 2)
     /\ \A range \in lis3mdl_range_t :
          KeepsOutside(setRange(s, range), s, LIS3MDL_REG_CTRL_REG2, 2, 5)
     /\ \A mode \in lis3mdl_operationmode_t :
          KeepsOutside(setOperationMode(s, mode), s, LIS3MDL_REG_CTRL_REG3, 2, 0)

\* C3 as claimed: every bit-field setter, reset among them, leaves the bits
\* of its register outside its field as they were, so that any other field of
\* the register reads as before.
C3_AsClaimed ==
  Idle =>
    /\ SettersKeepOtherBits
    /\ KeepsOutside(reset(State({})), State({}), LIS3MDL_REG_CTRL_REG2, 1, 2)

\* C3, amended: every bit-field setter other than reset leaves the bits of its
\* register outside its field as they were.  The byte reset writes differs
\* from the content of control register 2 in the reset bit alone, but a device
\* that implements the soft reset then reverts to its power-on content, so
\* after reset the range field reads its default, not its earlier value.
C3_SettersKeepOtherBits ==
  Idle =>
    /\ SettersKeepOtherBits
    /\ HandleBound =>
         LET t == reset(State({}))
         IN /\ t.log[2][1] = "W"
            /\ t.log[2][2] = LIS3MDL_REG_CTRL_REG2
            /\ Outside(t.log[2][5][1], 1, 2) = Outside(mem[LIS3MDL_REG_CTRL_REG2], 1, 2)
            /\ softReset => t.mem = PowerOn(mem)
            /\ ~softReset =>
                 t.mem = [mem EXCEPT ![LIS3MDL_REG_CTRL_REG2] = WithBits(@, 1, 2, 1)]

\* selfTest(true) has returned on a device whose control register 1 also
\* holds a data rate, a performance mode and bit 7
C3_Witness ==
  /\ last.op = "selfTest"
  /\ HandleBound
  /\ mem[LIS3MDL_REG_CTRL_REG1] = 227

-----------------------------------------------------------------------------
(* C4 *)

\* the configuration begin is to leave: ultra-high performance on all axes,
\* 155 Hz, +-4 gauss (on the device and in the cache), continuous mode
DefaultConfiguration ==
  /\ PerformanceXY = LIS3MDL_ULTRAHIGHMODE
  /\ PerformanceZ = LIS3MDL_ULTRAHIGHMODE
  /\ DataRateField = LIS3MDL_DATARATE_155_HZ
  /\ RangeField = LIS3MDL_RANGE_4_GAUSS
  /\ OperationModeField = LIS3MDL_CONTINUOUSMODE
  /\ rangeBuffered = LIS3MDL_RANGE_4_GAUSS

\* C4: whenever a begin call returns true, whatever the device held before,
\* the device holds the default configuration and the cached range is +-4
\* gauss.  It fails when a transfer after the identity read fails: _init
\* looks at no result but the identity and returns true all the same.
C4_AsClaimed ==
  (last.op \in Begins /\ last.ret = TRUE) => DefaultConfiguration

\* the same on a bus that fails no transfer, where it holds (under Spec)
C4_OnHealthyBus ==
  (last.op \in Begins /\ last.ret = TRUE /\ AllOk(last.log)) => DefaultConfiguration

-----------------------------------------------------------------------------
(* C5 *)

\* the LSB-per-gauss constants of the specification
DocScale(range) ==
  CASE range = LIS3MDL_RANGE_4_GAUSS -> 6842
    [] range = LIS3MDL_RANGE_8_GAUSS -> 3421
    [] range = LIS3MDL_RANGE_12_GAUSS -> 2281
    [] range = LIS3MDL_RANGE_16_GAUSS -> 1711

\* gauss * scale = raw, for a quotient gauss
IsRawOverScale(gauss, raw, scale) ==
  gauss.den > 0 /\ gauss.num * scale = raw * gauss.den

\* t holds the raw sample smp and its gauss values at the scale of range,
\* none of them indeterminate
HoldsSample(t, smp, range) ==
  /\ t.indeterminate = {}
  /\ <<t.x, t.y, t.z>> = smp
  /\ IsRawOverScale(t.x_gauss, smp[1], DocScale(range))
  /\ IsRawOverScale(t.y_gauss, smp[2], DocScale(range))
  /\ IsRawOverScale(t.z_gauss, smp[3], DocScale(range))

\* C5: on a bound handle, for each of the four values of the cached range and
\* every raw sample the device holds, read() stores the sample and sets each
\* gauss value to raw / scale, scale being 6842, 3421, 2281, 1711 for +-4,
\* +-8, +-12, +-16 gauss (gauss * scale = raw).
C5_ReadDividesByScale ==
  /\ (last.op = "read" /\ HandleBound) =>
       HoldsSample(State({}), <<x, y, z>>, rangeBuffered)
  /\ (Idle /\ HandleBound) =>
       \A smp \in RawSamples, cached \in lis3mdl_range_t :
         HoldsSample(read([State({}) EXCEPT !.mem = Measured(mem, smp),
                                            !.rangeBuffered = cached]),
                     smp, cached)

\* read() has returned with +-12 gauss cached
C5_Witness ==
  /\ last.op = "read"
  /\ HandleBound
  /\ rangeBuffered = LIS3MDL_RANGE_12_GAUSS
  /\ indeterminate = {}
  /\ <<x, y, z>> = <<1000, -2000, 500>>
  /\ IsRawOverScale(y_gauss, -2000, 2281)

-----------------------------------------------------------------------------
(* C6 *)

\* C6: on a bound handle, for every range r and whatever range was configured
\* or cached before, setRange(r) followed by getRange() returns r, and the
\* next read(), with or without the getRange() in between, converts with the
\* scale constant of r.
C6_SetRangeThenGetRange ==
  (Idle /\ HandleBound) =>
    \A r \in lis3mdl_range_t, smp \in RawSamples :
      LET t == setRange(State({}), r)
          g == getRange(NewCall(t))
          Sampled(u) == [NewCall(u) EXCEPT !.mem = Measured(u.mem, smp)]
      IN /\ g.ret = r
         /\ HoldsSample(read(Sampled(t)), smp, r)
         /\ HoldsSample(read(Sampled(g)), smp, r)

\* getRange() has returned +-16 gauss on a handle that begin had left at
\* +-4 gauss: setRange(+-16 gauss) came in between
C6_Witness ==
  /\ last.op = "getRange"
  /\ last.ret = LIS3MDL_RANGE_16_GAUSS
  /\ begun
  /\ rangeBuffered = LIS3MDL_RANGE_16_GAUSS

-----------------------------------------------------------------------------
(* C7 *)

\* C7: once a begin call has returned true, in every state between and right
\* after driver calls, the X/Y performance field (bits 6:5 of control
\* register 1) equals the Z performance field (bits 3:2 of control register
\* 4), and getPerformanceMode() returns that mode.
C7_PerformanceFieldsAgree ==
  begun =>
    /\ PerformanceXY = PerformanceZ
    /\ Idle => getPerformanceMode(State({})).ret = PerformanceZ

\* after begin, setDataRate(1000 Hz) has put both fields to low power
C7_Witness ==
  /\ begun
  /\ last.op = "setDataRate"
  /\ PerformanceXY = LIS3MDL_LOWPOWERMODE
  /\ PerformanceZ = LIS3MDL_LOWPOWERMODE

-----------------------------------------------------------------------------
(* C8 *)

\* m with the range field of control register 2 set to range
WithRangeField(m, range) ==
  [m EXCEPT ![LIS3MDL_REG_CTRL_REG2] = WithBits(@, 2, 5, range)]

RECURSIVE GCD(_, _)
GCD(a, b) == IF b = 0 THEN a ELSE GCD(b, a % b)

\* a quotient in lowest terms
Reduced(q) ==
  LET g == GCD(IF q.num < 0 THEN -q.num ELSE q.num, q.den)
  IN [num |-> q.num \div g, den |-> q.den \div g]

\* two quotients of the same value
SameQuotient(p, q) == p.den > 0 /\ q.den > 0 /\ Reduced(p) = Reduced(q)

\* the result of a successful readMagneticField for the raw sample smp
IsFieldOf(ret, smp) ==
  /\ ret.status = 1
  /\ \A i \in 1..3 :
       SameQuotient(<<ret.x, ret.y, ret.z>>[i],
                    [num |-> smp[i] * 4 * 100, den |-> 32768])

\* C8: for every raw sample and every configured and cached range, a
\* successful readMagneticField outputs raw * 4 * 100 / 32768 on each axis:
\* the same for all ranges, whatever rangeBuffered and the range register hold.
C8_FieldIgnoresRange ==
  /\ (last.op = "readMagneticField" /\ last.ret.status = 1) =>
       IsFieldOf(last.ret, Decode([i \in 1..6 |-> mem[LIS3MDL_REG_OUT_X_L + i - 1]]))
  /\ (Idle /\ HandleBound) =>
       \A smp \in RawSamples, cached \in lis3mdl_range_t,
          configured \in lis3mdl_range_t :
         IsFieldOf(readMagneticField(
                     [State({}) EXCEPT
                        !.mem = WithRangeField(Measured(mem, smp), configured),
                        !.rangeBuffered = cached]).ret,
                   smp)

\* readMagneticField has succeeded with +-16 gauss configured and cached
C8_Witness ==
  /\ last.op = "readMagneticField"
  /\ last.ret.status = 1
  /\ last.ret.x = Ratio(400000, 32768)
  /\ rangeBuffered = LIS3MDL_RANGE_16_GAUSS
  /\ RangeField = LIS3MDL_RANGE_16_GAUSS

-----------------------------------------------------------------------------
(* C9 *)

\* C9: on a bound handle, for all 64 combinations of the flags and whatever
\* the interrupt-configuration register held, configInterrupt leaves it equal
\* to 0x08 | enableX<<7 | enableY<<6 | enableZ<<5 | polarity<<2 | latch<<1 |
\* enableInt: bit 3 set, bit 4 clear, no earlier bit kept.
C9_InterruptConfigByte ==
  (Idle /\ HandleBound) =>
    \A f \in AllFlags :
      LET v == configInterrupt(State({}), f).mem[LIS3MDL_REG_INT_CFG]
      IN /\ v = 8 + 128 * Bit(f[1]) + 64 * Bit(f[2]) + 32 * Bit(f[3])
                  + 4 * Bit(f[4]) + 2 * Bit(f[5]) + Bit(f[6])
         /\ Bits(v, 1, 3) = 1
         /\ Bits(v, 1, 4) = 0

\* configInterrupt(true, false, true, false, true, true) has returned
C9_Witness ==
  /\ last.op = "configInterrupt"
  /\ last.args = <<TRUE, FALSE, TRUE, FALSE, TRUE, TRUE>>
  /\ HandleBound
  /\ mem[LIS3MDL_REG_INT_CFG] = 171

-----------------------------------------------------------------------------
(* C10 *)

\* v with bit 15 cleared
HighBitCleared(v) == IF v >= 32768 THEN v - 32768 ELSE v

\* C10: on a bound handle, setIntThreshold(v) stores v with its high bit
\* cleared in the two-byte threshold register, low byte first, so that
\* setIntThreshold(0xFFFF) stores 0x7FFF, and a getIntThreshold() that
\* follows returns v with its high bit cleared.
C10_ThresholdHighBitCleared ==
  (Idle /\ HandleBound) =>
    \A v \in ThresholdValues :
      LET t == setIntThreshold(State({}), v)
      IN /\ t.mem[LIS3MDL_REG_INT_THS_L] + 256 * t.mem[LIS3MDL_REG_INT_THS_L + 1]
              = HighBitCleared(v)
         /\ getIntThreshold(NewCall(t)).ret = HighBitCleared(v)
         /\ v = 65535 => /\ t.mem[LIS3MDL_REG_INT_THS_L] = 255
                         /\ t.mem[LIS3MDL_REG_INT_THS_L + 1] = 127

\* setIntThreshold(0xFFFF) has returned and the register holds 0x7FFF
C10_Witness ==
  /\ last.op = "setIntThreshold"
  /\ last.args = <<65535>>
  /\ HandleBound
  /\ mem[LIS3MDL_REG_INT_THS_L] = 255
  /\ mem[LIS3MDL_REG_INT_THS_L + 1] = 127

-----------------------------------------------------------------------------
(* C11 *)

\* the places of the log of the call c that read the identity register
IdentityReads(c) ==
  {i \in 1..Len(c.log) :
     c.log[i][1] = "R" /\ c.log[i][2] = LIS3MDL_REG_WHO_AM_I}

\* the call c is a begin call that read the identity register
ReadsIdentity(c) == c.op \in Begins /\ IdentityReads(c) # {}

\* what the identity read of the call c returned, the device holding m
IdentityRead(c, m) ==
  LET i == CHOOSE i \in IdentityReads(c) : TRUE
  IN IF c.log[i][4] THEN m[LIS3MDL_REG_WHO_AM_I] ELSE ReadFailed

\* the call c wrote no register
WritesNothing(c) == \A i \in 1..Len(c.log) : c.log[i][1] # "W"

\* C11: a begin call whose identity read returns anything but 0x3D (another
\* identity, or the all-ones of a failed read) returns false and writes no
\* register: every device register and the cached range are after the call
\* what they were before it.
C11_IdentityMismatchWritesNothing ==
  [][(ReadsIdentity(last') /\ IdentityRead(last', mem) # 61)
       => /\ last'.ret = FALSE
          /\ WritesNothing(last')
          /\ mem' = mem
          /\ rangeBuffered' = rangeBuffered]_vars

\* a begin call has read the identity 0x40 and returned false
C11_Witness ==
  /\ ReadsIdentity(last)
  /\ IdentityRead(last, mem) = 64
  /\ last.ret = FALSE
  /\ Len(last.log) = 2

-----------------------------------------------------------------------------
(* C12 *)

\* the call c is a begin call whose bus handshake failed
HandshakeFailed(c) ==
  /\ c.op \in Begins
  /\ c.log[1][1] = "H"
  /\ ~c.log[1][4]

\* C12: a begin call, of any of the three entry points, whose bus handshake
\* fails returns false without the identity read and without any register
\* write: the device's registers and the cached range are unchanged.
C12_FailedHandshakeTouchesNothing ==
  [][HandshakeFailed(last')
       => /\ last'.ret = FALSE
          /\ Len(last'.log) = 1
          /\ mem' = mem
          /\ rangeBuffered' = rangeBuffered]_vars

\* the software-SPI begin has failed its handshake on a device that holds
\* the right identity
C12_Witness ==
  /\ last.op = "begin_SPI_soft"
  /\ HandshakeFailed(last)
  /\ last.ret = FALSE
  /\ mem[LIS3MDL_REG_WHO_AM_I] = 61

-----------------------------------------------------------------------------
(* C13 *)

\* C13: right after a begin call, whether it returned true or false and
\* whatever was bound before, exactly one transport slot is non-empty: the
\* slot of the requested bus kind holds a transport and the other is empty.
C13_OneSlotAfterBind ==
  last.op \in Begins =>
    IF last.op = "begin_I2C"
      THEN i2c_dev # NULL /\ spi_dev = NULL
      ELSE spi_dev # NULL /\ i2c_dev = NULL

\* the hardware-SPI begin has failed its handshake on a handle that an
\* earlier begin had made ready
C13_Witness ==
  /\ last.op = "begin_SPI"
  /\ HandshakeFailed(last)
  /\ begun
  /\ spi_dev # NULL
  /\ i2c_dev = NULL

-----------------------------------------------------------------------------
(* C14 *)

ExactlyOneBinding == (i2c_dev # NULL) # (spi_dev # NULL)

\* C14 as claimed: in every reachable state, from construction on, exactly
\* one of the two bindings is active.  The constructed handle has neither.
C14_AsClaimed == ExactlyOneBinding

\* C14: the two bindings are never both active; neither is active from
\* construction until the first begin call; from the first step of the first
\* begin call on, whether it succeeds or not, exactly one is active in every
\* state, those inside the delays of a call included.
C14_AtMostOneBinding ==
  /\ ~HandleBound
  /\ [](~(i2c_dev # NULL /\ spi_dev # NULL))
  /\ [][IF Acting \in Begins \/ HandleBound
          THEN ExactlyOneBinding'
          ELSE ~HandleBound']_vars

\* begin_I2C has returned true: the I2C binding is the one active
C14_Witness ==
  /\ last.op = "begin_I2C"
  /\ last.ret = TRUE
  /\ i2c_dev # NULL
  /\ spi_dev = NULL
  /\ rangeBuffered = LIS3MDL_RANGE_4_GAUSS

-----------------------------------------------------------------------------
(* C15 *)

\* the call that ended in t, some transfer of which failed, returned another
\* value than the same call from the same state, ended in u, with no failure
Reports(t, u) == ~AllOk(t.log) => t.ret # u.ret

\* C15 as claimed: every operation that makes a bus transfer returns, when a
\* transfer of it fails, another value than when all its transfers succeed.
\* It fails for reset, read and every setter, which return nothing, for
\* getEvent, which returns true whatever its read did, for the getters, which
\* return the field of an all-ones value, and for the begin calls, which look
\* at the identity read only.
C15_AsClaimed ==
  (Idle /\ HandleBound) =>
    \A f \in FailPatterns \ {{}} :
      LET s == State(f)
          u == State({})
      IN /\ Reports(begin_I2C(s, TRUE), begin_I2C(u, TRUE))
         /\ Reports(begin_SPI(s, TRUE), begin_SPI(u, TRUE))
         /\ Reports(begin_SPI_soft(s, TRUE), begin_SPI_soft(u, TRUE))
         /\ Reports(reset(s), reset(u))
         /\ Reports(read(s), read(u))
         /\ ~AllOk(getEvent(s).log)
              => getEvent(s).ret.ok # getEvent(u).ret.ok
         /\ ~AllOk(readMagneticField(s).log)
              => readMagneticField(s).ret.status # readMagneticField(u).ret.status
         /\ Reports(getPerformanceMode(s), getPerformanceMode(u))
         /\ Reports(getDataRate(s), getDataRate(u))
         /\ Reports(getOperationMode(s), getOperationMode(u))
         /\ Reports(getRange(s), getRange(u))
         /\ Reports(getIntThreshold(s), getIntThreshold(u))
         /\ \A mode \in lis3mdl_performancemode_t :
              Reports(setPerformanceMode(s, mode), setPerformanceMode(u, mode))
         /\ \A dataRate \in lis3mdl_dataRate_t :
              Reports(setDataRate(s, dataRate), setDataRate(u, dataRate))
         /\ \A mode \in lis3mdl_operationmode_t :
              Reports(setOperationMode(s, mode), setOperationMode(u, mode))
         /\ \A range \in lis3mdl_range_t :
              Reports(setRange(s, range), setRange(u, range))
         /\ \A value \in InterruptThresholds :
              Reports(setIntThreshold(s, value), setIntThreshold(u, value))
         /\ \A flags \in InterruptFlags :
              Reports(configInterrupt(s, flags), configInterrupt(u, flags))
         /\ \A flag \in BOOLEAN :
              Reports(selfTest(s, flag), selfTest(u, flag))

\* the one operation for which it holds: readMagneticField returns 0 when its
\* read fails and 1 when it succeeds (under SpecFault)
C15_ReadMagneticFieldReports ==
  (Idle /\ HandleBound) =>
    \A f \in FailPatterns \ {{}} :
      ~AllOk(readMagneticField(State(f)).log)
        => readMagneticField(State(f)).ret.status
             # readMagneticField(State({})).ret.status

-----------------------------------------------------------------------------
(* C16 *)

\* C16: the stored raw sample x, y, z and its gauss values change only in a
\* read(), called directly or through getEvent: every other call (the begin
\* calls, reset, the setters and getters, configInterrupt, selfTest,
\* magneticFieldAvailable, magneticFieldSampleRate, readMagneticField) and
\* every measurement of the device leave all six unchanged, those no call
\* has assigned yet included.
C16_OnlyReadStoresSample ==
  [][last'.op \notin {"read", "getEvent"}
       => UNCHANGED <<x, y, z, x_gauss, y_gauss, z_gauss, indeterminate>>]_vars

\* readMagneticField has returned the sample 1000 the device holds while the
\* six members still hold what the storage held at construction
C16_Witness ==
  /\ last.op = "readMagneticField"
  /\ last.ret.status = 1
  /\ SameQuotient(last.ret.x, [num |-> 1000 * 4 * 100, den |-> 32768])
  /\ indeterminate = SampleMembers

-----------------------------------------------------------------------------
(* C17 *)

\* the raw sample the device's output registers hold
DeviceSample == Decode([i \in 1..6 |-> mem[LIS3MDL_REG_OUT_X_L + i - 1]])

\* C17: readMagneticField makes one 6-byte read of the output registers; when
\* that read fails (the handle unbound included) it returns 0 and its three
\* outputs are the not-a-number sentinel; when the read succeeds it returns 1
\* and the outputs are the three converted values.  As 0 and 1 differ, each
\* result comes exactly with its case.
C17_FieldStatusTellsTheRead ==
  last.op = "readMagneticField" =>
    /\ Len(last.log) = 1
    /\ last.log[1][1] = "R"
    /\ last.log[1][2] = LIS3MDL_REG_OUT_X_L
    /\ last.log[1][3] = 6
    /\ IF last.log[1][4]
         THEN IsFieldOf(last.ret, DeviceSample)
         ELSE /\ last.ret.status = 0
              /\ last.ret.x = NaN
              /\ last.ret.y = NaN
              /\ last.ret.z = NaN

\* the read of a readMagneticField on a ready handle has failed
C17_Witness ==
  /\ last.op = "readMagneticField"
  /\ begun
  /\ ~last.log[1][4]
  /\ last.ret = [status |-> 0, x |-> NaN, y |-> NaN, z |-> NaN]
  /\ DeviceSample = <<32767, -32768, -1>>

-----------------------------------------------------------------------------
(* C18 *)

\* the steps of a log: each entry's kind with its register address (for a
\* delay, its milliseconds)
Steps(log) == [i \in 1..Len(log) |-> <<log[i][1], log[i][2]>>]

\* a read-modify-write of the register at addr
FieldWrite(addr) == << <<"R", addr>>, <<"W", addr>> >>

\* the steps of a begin call that passes the identity check: the handshake,
\* the identity read, reset, setPerformanceMode, setDataRate (for 155 Hz, with
\* its own setPerformanceMode), setRange, setOperationMode
BeginSteps ==
  << <<"H", 0>>, <<"R", LIS3MDL_REG_WHO_AM_I>> >>
    \o FieldWrite(LIS3MDL_REG_CTRL_REG2)
    \o << <<"D", 10>>, <<"R", LIS3MDL_REG_CTRL_REG2>> >>
    \o FieldWrite(LIS3MDL_REG_CTRL_REG1) \o FieldWrite(LIS3MDL_REG_CTRL_REG4)
    \o FieldWrite(LIS3MDL_REG_CTRL_REG1) \o FieldWrite(LIS3MDL_REG_CTRL_REG4)
    \o << <<"D", 10>> >> \o FieldWrite(LIS3MDL_REG_CTRL_REG1)
    \o FieldWrite(LIS3MDL_REG_CTRL_REG2)
    \o FieldWrite(LIS3MDL_REG_CTRL_REG3)

\* the field of `bits` bits at `shift` in the byte the i-th step of log wrote
Written(log, i, bits, shift) == Bits(log[i][5][1], bits, shift)

\* what the writes of BeginSteps write, each in its field
BeginWrites(log) ==
  /\ Written(log, 4, 1, 2) = 1
  /\ Written(log, 8, 2, 5) = LIS3MDL_ULTRAHIGHMODE
  /\ Written(log, 10, 2, 2) = LIS3MDL_ULTRAHIGHMODE
  /\ Written(log, 12, 2, 5) = LIS3MDL_ULTRAHIGHMODE
  /\ Written(log, 14, 2, 2) = LIS3MDL_ULTRAHIGHMODE
  /\ Written(log, 17, 4, 1) = LIS3MDL_DATARATE_155_HZ
  /\ Written(log, 19, 2, 5) = LIS3MDL_RANGE_4_GAUSS
  /\ Written(log, 21, 2, 0) = LIS3MDL_CONTINUOUSMODE

\* C18: a begin call that passes the identity check makes its steps in this
\* order: reset, setPerformanceMode(ultra-high), setDataRate(155 Hz),
\* setRange(+-4 gauss), setOperationMode(continuous), and returns true; a
\* begin call returns true only with the operation-mode write as its last
\* step; no register write comes before the identity read.
C18_BeginOrder ==
  last.op \in Begins =>
    /\ (ReadsIdentity(last) /\ IdentityRead(last, mem) = 61)
         => /\ Steps(last.log) = BeginSteps
            /\ BeginWrites(last.log)
            /\ last.ret = TRUE
    /\ last.ret = TRUE => Steps(last.log) = BeginSteps
    /\ \A i \in 1..Len(last.log) :
         last.log[i][1] = "W" => \E j \in IdentityReads(last) : j < i

\* begin_I2C has returned true after its 21 steps, none of which failed
C18_Witness ==
  /\ last.op = "begin_I2C"
  /\ last.ret = TRUE
  /\ Len(last.log) = 21
  /\ AllOk(last.log)
  /\ DefaultConfiguration

-----------------------------------------------------------------------------
(* C19 *)

\* log holds, from place i on, the four steps of a reset: the read and the
\* write of control register 2 with the reset bit set, a delay of at least
\* 10 ms, and the read of control register 2
ResetStepsAt(log, i) ==
  /\ Len(log) >= i + 3
  /\ SubSeq(Steps(log), i, i + 1) = FieldWrite(LIS3MDL_REG_CTRL_REG2)
  /\ Written(log, i + 1, 1, 2) = 1
  /\ log[i + 2][1] = "D"
  /\ log[i + 2][2] >= 10
  /\ Steps(log)[i + 3] = <<"R", LIS3MDL_REG_CTRL_REG2>>

\* C19: every reset() call, also the one a begin call makes, writes the reset
\* bit of control register 2, then delays for at least 10 ms with no register
\* access in between, and reads the range only after the delay; that read is
\* its last step and the one the cache comes from: the cached range is the
\* range the device holds after the reset, not the one read before the delay.
C19_ResetDelaysThenRefreshes ==
  /\ last.op = "reset" =>
       /\ Len(last.log) = 4
       /\ ResetStepsAt(last.log, 1)
       /\ last.log[4][4] => rangeBuffered = RangeField
  /\ (last.op \in Begins /\ last.ret = TRUE) =>
       ResetStepsAt(last.log, 3)

\* a reset has found +-8 gauss on a device that reverts to its power-on
\* content when reset, and after its delay has read and cached +-4 gauss
C19_Witness ==
  /\ last.op = "reset"
  /\ HandleBound
  /\ softReset
  /\ Bits(last.log[2][5][1], 2, 5) = LIS3MDL_RANGE_8_GAUSS
  /\ last.log[3] = <<"D", 10, 0, TRUE, <<>>>>
  /\ rangeBuffered = LIS3MDL_RANGE_4_GAUSS

-----------------------------------------------------------------------------
(* C20 *)

\* log is the steps of setDataRate(r): it ends with a delay of at least 10 ms
\* and then the read-modify-write of control register 1 that writes r in the
\* rate field; before the delay come, for a fast rate, the writes of the
\* paired mode to the X/Y field and to the Z field, and for another rate
\* nothing
DataRateSteps(log, r) ==
  LET n == Len(log)
  IN /\ n >= 3
     /\ log[n - 2][1] = "D"
     /\ log[n - 2][2] >= 10
     /\ SubSeq(Steps(log), n - 1, n) = FieldWrite(LIS3MDL_REG_CTRL_REG1)
     /\ Written(log, n, 4, 1) = r
     /\ IF r \in FastRates
          THEN /\ n = 7
               /\ SubSeq(Steps(log), 1, 4)
                    = FieldWrite(LIS3MDL_REG_CTRL_REG1)
                        \o FieldWrite(LIS3MDL_REG_CTRL_REG4)
               /\ Written(log, 2, 2, 5) = PairedMode(r)
               /\ Written(log, 4, 2, 2) = PairedMode(r)
          ELSE n = 3

\* C20: every setDataRate(r) call, for each of the twelve rates, delays for
\* at least 10 ms right before the write of the 4-bit rate field; for a fast
\* rate both performance-mode writes (X/Y, then Z) come before that delay;
\* for another rate the call writes nothing but the rate field, and the byte
\* it writes keeps the performance bits the register held.
C20_DataRateDelaysBeforeWrite ==
  /\ last.op = "setDataRate" => DataRateSteps(last.log, last.args[1])
  /\ Idle =>
       \A r \in lis3mdl_dataRate_t :
         LET t == setDataRate(State({}), r)
         IN /\ DataRateSteps(t.log, r)
            /\ (HandleBound /\ r \notin FastRates) =>
                 Outside(t.log[3][5][1], 4, 1)
                   = Outside(mem[LIS3MDL_REG_CTRL_REG1], 4, 1)

\* setDataRate(80 Hz), not a fast rate, has returned after its delay and its
\* write of the rate
C20_Witness ==
  /\ last.op = "setDataRate"
  /\ last.args = <<LIS3MDL_DATARATE_80_HZ>>
  /\ HandleBound
  /\ Steps(last.log)
       = << <<"D", 10>> >> \o FieldWrite(LIS3MDL_REG_CTRL_REG1)
  /\ DataRateField = LIS3MDL_DATARATE_80_HZ

-----------------------------------------------------------------------------
(* C21 *)

\* the rate field holds no fast rate, or both performance fields hold the
\* mode paired with the fast rate it holds
RatePaired ==
  DataRateField \in FastRates =>
    /\ PerformanceXY = PairedMode(DataRateField)
    /\ PerformanceZ = PairedMode(DataRateField)

\* C21, as claimed: once a begin call has returned true, after any sequence
\* of operations, a fast rate in the device's data-rate field comes with the
\* performance mode paired with it, and so does the rate that getDataRate and
\* magneticFieldSampleRate report.
C21_AsClaimed ==
  (begun /\ HandleBound) =>
    /\ RatePaired
    /\ Idle =>
         LET r == getDataRate(State({})).ret
             f == magneticFieldSampleRate(State({})).ret
             p == getPerformanceMode(State({})).ret
         IN r \in FastRates =>
              /\ p = PairedMode(r)
              /\ f = CASE p = LIS3MDL_ULTRAHIGHMODE -> Ratio(155, 1)
                       [] p = LIS3MDL_HIGHMODE -> Ratio(300, 1)
                       [] p = LIS3MDL_MEDIUMMODE -> Ratio(560, 1)
                       [] p = LIS3MDL_LOWPOWERMODE -> Ratio(1000, 1)

\* setPerformanceMode(low power) has returned on a ready handle whose device
\* keeps 155 Hz in its rate field
C21_Unpaired ==
  /\ last.op = "setPerformanceMode"
  /\ last.args = <<LIS3MDL_LOWPOWERMODE>>
  /\ begun
  /\ HandleBound
  /\ DataRateField = LIS3MDL_DATARATE_155_HZ
  /\ PerformanceXY = LIS3MDL_LOWPOWERMODE
  /\ PerformanceZ = LIS3MDL_LOWPOWERMODE

-----------------------------------------------------------------------------
(* C22 *)

\* byte values around the sign bit and the ends of the byte range, and the
\* two bytes of the specification's example
EdgeBytes == {0, 1, 48, 127, 128, 129, 248, 254, 255}

\* the two's-complement signed 16-bit value of lo + 256 * hi
Signed16(lo, hi) ==
  IF hi >= 128 THEN lo + 256 * hi - 65536 ELSE lo + 256 * hi

\* the register file m with the six output registers holding bytes
Holding(m, bytes) ==
  [a \in Addrs |->
     IF a >= LIS3MDL_REG_OUT_X_L /\ a < LIS3MDL_REG_OUT_X_L + 6
       THEN bytes[a - LIS3MDL_REG_OUT_X_L + 1]
       ELSE m[a]]

\* the call t was one 6-byte read from the X-low register on and left in
\* x, y, z the signed values of the byte pairs of b, low byte first
ReadsSigned(t, b) ==
  /\ Steps(t.log) = << <<"R", LIS3MDL_REG_OUT_X_L>> >>
  /\ t.log[1][3] = 6
  /\ t.indeterminate = {}
  /\ t.x = Signed16(b[1], b[2])
  /\ t.y = Signed16(b[3], b[4])
  /\ t.z = Signed16(b[5], b[6])

\* C22: on a bound handle read() issues exactly one read, of 6 bytes from the
\* X-low register on, and stores in x, y, z the two's-complement signed
\* 16-bit values of b0 + 256*b1, b2 + 256*b3, b4 + 256*b5, negative when the
\* high byte is 0x80 or more, for the bytes the device holds and for every
\* pair of edge bytes in each of the three places.
C22_ReadDecodesSigned ==
  /\ (last.op = "read" /\ HandleBound) =>
       ReadsSigned([log |-> last.log, x |-> x, y |-> y, z |-> z,
                    indeterminate |-> indeterminate],
                   [i \in 1..6 |-> mem[LIS3MDL_REG_OUT_X_L + i - 1]])
  /\ (Idle /\ HandleBound) =>
       \A lo \in EdgeBytes, hi \in EdgeBytes :
         LET b == <<lo, hi, hi, lo, 255 - lo, 255 - hi>>
         IN ReadsSigned(read([State({}) EXCEPT !.mem = Holding(mem, b)]), b)

\* read() has returned with the output registers of y holding 0x30, 0xF8 and
\* y holding -2000
C22_Witness ==
  /\ last.op = "read"
  /\ HandleBound
  /\ Len(last.log) = 1
  /\ mem[LIS3MDL_REG_OUT_X_L + 2] = 48
  /\ mem[LIS3MDL_REG_OUT_X_L + 3] = 248
  /\ indeterminate = {}
  /\ y = -2000

-----------------------------------------------------------------------------
(* C23 *)

\* the operations that may change the range field or the cached range
RangeOperations == {"setRange", "getRange", "reset"} \cup Begins

\* C23: once a begin call has returned true, on a bus that fails no transfer,
\* the cached range equals the device's range field in every state between
\* driver calls (no call waiting in a delay) of every sequence of operations;
\* every step of an operation other than setRange, getRange, reset and begin,
\* and every measurement of the device, leaves both the range field and the
\* cached range as they were; so every read() called between driver calls
\* from then on has divided by the scale of the range the device holds.
C23_CacheFollowsDevice ==
  /\ []((begun /\ calls = <<>>) => rangeBuffered = RangeField)
  /\ [][Acting \notin RangeOperations
          => /\ RangeField' = RangeField
             /\ rangeBuffered' = rangeBuffered]_vars
  /\ []((begun /\ calls = <<>> /\ last.op = "read")
          => HoldsSample(State({}), <<x, y, z>>, RangeField))

\* on a ready handle set to +-16 gauss, read() has returned with the sample
\* (1000, -2000, 500) divided by 1711
C23_Witness ==
  /\ last.op = "read"
  /\ begun
  /\ HandleBound
  /\ RangeField = LIS3MDL_RANGE_16_GAUSS
  /\ rangeBuffered = LIS3MDL_RANGE_16_GAUSS
  /\ indeterminate = {}
  /\ x = 1000
  /\ IsRawOverScale(x_gauss, 1000, 1711)

=============================================================================
